---- MODULE Spec2Model ----
(***************************************************************************)
(* Model of the FITS custom editor of vscode-astronomy                     *)
(* (src/src/fitsView.ts and the panel script src/unnamed/part_000).        *)
(*                                                                         *)
(* One FitsFile document is tracked in full: its _documentData, and its    *)
(* _edits and _savedEdits fields, which are REFERENCES to JavaScript       *)
(* arrays: `this._edits = this._savedEdits` makes both fields name the     *)
(* same array, and `shared` records that.  The FitsProvider state          *)
(* (_requestId,                                                            *)
(* _callbacks, the WebviewCollection) is shared with a second document     *)
(* (OtherUri) whose panels are tracked but whose contents are not.         *)
(*                                                                         *)
(* Every action is one turn of the single host thread: a call made by the  *)
(* editor (save, saveAs, backup, revert, undo, redo, panel creation and    *)
(* disposal, cancellation), a message received from a panel, or the        *)
(* completion of a file-system call, run up to the next await.             *)
(***************************************************************************)
EXTENDS Integers, Sequences, FiniteSets, TLC

\* ---------------------------------------------------------------- bounds
MaxStrokes == 2    \* number of stroke messages the panels send
MaxReq == 1        \* number of correlated requests the calls of one document issue
MaxEntries == 4    \* number of entries the collection holds at a time

Panels == {1, 2}                         \* panel handles the editor creates
Payloads == {<<65, 321>>}                \* number[] bodies a response can carry
DocUris == {"untitled:Untitled-1", "file:///a.fits"}
OtherUri == "file:///b.fits"
DestUri == "file:///c.fits"              \* where a saveAs or a backup is sent
InitialBytes == <<83, 200>>              \* what is stored at file:///a.fits at first
Absent == <<-1>>                         \* what disk holds where no file exists
Undefined == <<-2>>                      \* JavaScript's undefined, where bytes or text are expected
NotLoaded == <<-3>>                      \* a panel on which JS9.Load has not been called

VARIABLES
    uri,            \* FitsFile._uri
    documentData,   \* FitsFile._documentData
    edits,          \* FitsFile._edits: the contents of the array it refers to
    savedEdits,     \* FitsFile._savedEdits: the contents of the array it refers to
    shared,         \* TRUE when _edits and _savedEdits refer to one and the same array
    disk,           \* vscode.workspace.fs: location -> bytes, or Absent
    requestId,      \* FitsProvider._requestId
    callbacks,      \* FitsProvider._callbacks: the ids that have a resolver
    otherRequests,  \* how many requests the calls of the other document have issued
    webviews,       \* WebviewCollection._webviews, in insertion order
    pstate,         \* per panel: "none", "loading", "ready", "disposed"
    inbox,          \* per panel: messages posted to it and not yet handled
    loaded,         \* per panel: the last argument of JS9.Load
    strokes,        \* how many stroke messages have arrived; the n-th message is edit n
    task,           \* per request id: the save / saveAs / backup that awaits it
    hostEdits,      \* the editor's undo stack: the edit events it received
    hostIdx,        \* how many of them are currently applied
    hostSave,       \* the editor's save point in that stack (-1: dropped)
    backupHandle,   \* TRUE once a backup call has returned its handle to the editor
    snap,           \* history: edit list captured by the last completed save
    run,            \* history: the current makeEdit.../undo... run
    last            \* history: the step just taken, when a property refers to it

vars == <<uri, documentData, edits, savedEdits, shared, disk, requestId, callbacks,
          otherRequests,
          webviews, pstate, inbox, loaded, strokes, task, hostEdits, hostIdx, hostSave,
          backupHandle, snap, run, last>>

docVars == <<uri, documentData, edits, savedEdits, shared>>
hostVars == <<hostEdits, hostIdx, hostSave, backupHandle>>
bridgeVars == <<requestId, callbacks, otherRequests>>
panelVars == <<webviews, pstate, inbox, loaded>>
histVars == <<snap, run>>

\* ------------------------------------------------------------- helpers
\* the ids the provider can issue: MaxReq for each of the two documents
Ids == 1..(2 * MaxReq)
\* the ids a 'response' message can carry: those issued and one never issued
MessageIds == 1..(MaxReq + 1)
Locations == DocUris \cup {OtherUri, DestUri}

\* uri.scheme
Scheme(u) == IF u = "untitled:Untitled-1" THEN "untitled" ELSE "file"

Front(s) == SubSeq(s, 1, Len(s) - 1)

\* Array.prototype.shift removes the first element
ArrayShift(s) == IF s = << >> THEN s ELSE SubSeq(s, 2, Len(s))

\* Array.prototype.pop: removes the last element; nothing on an empty array
ArrayPop(s) == IF s = << >> THEN s ELSE Front(s)

\* Array.prototype.unshift puts the element first
ArrayUnshift(s, e) == <<e>> \o s

\* Array.prototype.push
ArrayPush(s, e) == Append(s, e)

\* new Uint8Array(number[]): every element is taken modulo 2^8
ToUint8Array(body) == [i \in DOMAIN body |-> body[i] % 256]

NoTask == [kind |-> "none", pc |-> "idle", target |-> "", cancel |-> FALSE,
           sawCancel |-> FALSE, data |-> << >>, panel |-> 0]

\* run: since the log was `base`, makeEdit calls have appended `made` (those
\* already undone, newest first, removed again) and `undone` of their undo
\* actions have run; any other change of the log ends the run
NoRun == [active |-> FALSE, base |-> << >>, made |-> << >>, undone |-> 0]

Step(op) == [op |-> op, pre |-> << >>, id |-> 0]

\* ---------------------------------------------------------------- Init
\* the state once openCustomDocument has created the document at location u
InitAt(u) ==
    /\ uri = u
    /\ disk = [l \in Locations |->
                 IF l = "file:///a.fits" THEN InitialBytes
                 ELSE IF l = OtherUri THEN <<66>> ELSE Absent]
    \* FitsFile.create / readFile: untitled documents start empty
    /\ documentData = IF Scheme(uri) = "untitled" THEN << >> ELSE disk[uri]
    /\ edits = << >>
    /\ savedEdits = << >>
    /\ shared = FALSE
    /\ requestId = 1
    /\ callbacks = {}
    /\ otherRequests = 0
    /\ webviews = << >>
    /\ pstate = [p \in Panels |-> "none"]
    /\ inbox = [p \in Panels |-> << >>]
    /\ loaded = [p \in Panels |-> NotLoaded]
    /\ strokes = 0
    /\ task = [n \in Ids |-> NoTask]
    /\ hostEdits = << >>
    /\ hostIdx = 0
    /\ hostSave = 0
    /\ backupHandle = FALSE
    /\ snap = << >>
    /\ run = NoRun
    /\ last = Step("other")

\* a document opened from a file
Init == InitAt("file:///a.fits")

\* a document opened from a file, or a new untitled one
InitScript == \E u \in DocUris : InitAt(u)

\* ------------------------------------------------- WebviewCollection
\* a lookup that stops at the first entry of the resource
GetFirstOnly(ws, key) ==
    LET m == SelectSeq(ws, LAMBDA e : e.resource = key)
    IN IF m = << >> THEN << >> ELSE <<m[1].webviewPanel>>

\* WebviewCollection.get: the panels registered for a resource, in insertion order
RECURSIVE GetFrom(_, _)
GetFrom(ws, key) ==
    IF ws = << >> THEN << >>
    ELSE IF ws[1].resource = key
         THEN <<ws[1].webviewPanel>> \o GetFrom(Tail(ws), key)
         ELSE GetFrom(Tail(ws), key)

\* every registered panel, whatever its resource
GetAnyResource(u) == [i \in DOMAIN webviews |-> webviews[i].webviewPanel]

\* this.webviews.get(uri)
Get(u) == GetFrom(webviews, u)

\* the entries that remain when only the hook of p's first entry has run
WithoutFirst(ws, p) ==
    IF \E i \in DOMAIN ws : ws[i].webviewPanel = p
    THEN LET k == CHOOSE i \in DOMAIN ws :
                    /\ ws[i].webviewPanel = p
                    /\ \A j \in 1..(i - 1) : ws[j].webviewPanel # p
         IN SubSeq(ws, 1, k - 1) \o SubSeq(ws, k + 1, Len(ws))
    ELSE ws

\* the entries that remain when every disposal hook of panel p has run
RECURSIVE Without(_, _)
Without(ws, p) ==
    IF ws = << >> THEN << >>
    ELSE IF ws[1].webviewPanel = p THEN Without(Tail(ws), p)
         ELSE <<ws[1]>> \o Without(Tail(ws), p)

Alive(p) == pstate[p] \in {"loading", "ready"}

\* the document whose message handlers resolveCustomEditor attached to panel p
PanelDocument(p) ==
    webviews[CHOOSE i \in DOMAIN webviews : webviews[i].webviewPanel = p].resource

\* WebviewCollection.add called on its own, for an open panel: a new entry
\* object at the end of the set, and a disposal hook for it on the panel
Add(res, p) ==
    /\ pstate[p] # "disposed"
    /\ Len(webviews) < MaxEntries
    /\ webviews' = Append(webviews, [resource |-> res, webviewPanel |-> p])
    /\ pstate' = [pstate EXCEPT ![p] = IF @ = "none" THEN "loading" ELSE @]
    /\ last' = Step("other")
    /\ UNCHANGED <<docVars, disk, bridgeVars, inbox, loaded, strokes, task, hostVars,
                   histVars>>

\* -------------------------------------------------- FitsFile: edits
\* the array _edits refers to is changed in place to `log`: the change shows
\* through _savedEdits as well when that field refers to the same array
Mutate(log) ==
    /\ edits' = log
    /\ savedEdits' = IF shared THEN log ELSE savedEdits
    /\ shared' = shared

\* makeEdit: push the edit, fire onDidChange; the editor puts the event on
\* its undo stack, dropping the frames that were undone
MakeEdit(e) ==
    /\ Mutate(ArrayPush(edits, e))
    /\ hostEdits' = Append(SubSeq(hostEdits, 1, hostIdx), e)
    /\ hostIdx' = hostIdx + 1
    /\ hostSave' = IF hostSave > hostIdx THEN -1 ELSE hostSave
    /\ run' = IF run.active THEN [run EXCEPT !.made = Append(@, e)]
              ELSE [active |-> TRUE, base |-> edits, made |-> <<e>>, undone |-> 0]
    /\ last' = Step("other")
    /\ UNCHANGED <<uri, documentData, snap, backupHandle>>

\* onMessage, case 'stroke', of a panel of the tracked document: the message
\* object itself is the edit
OnStroke(p) ==
    /\ Alive(p)
    /\ PanelDocument(p) = uri
    /\ strokes < MaxStrokes
    /\ strokes' = strokes + 1
    /\ MakeEdit(strokes + 1)
    /\ UNCHANGED <<disk, bridgeVars, panelVars, task>>

\* the undo closure of the event on top of the editor's undo stack
Undo ==
    /\ hostIdx > 0
    /\ Mutate(ArrayPop(edits))
    /\ hostIdx' = hostIdx - 1
    /\ run' = IF run.active /\ run.made # << >>
              THEN [run EXCEPT !.made = Front(@), !.undone = @ + 1] ELSE NoRun
    /\ last' = [Step("undo") EXCEPT !.pre = edits, !.id = hostEdits[hostIdx]]
    /\ UNCHANGED <<uri, documentData, disk, bridgeVars, panelVars,
                   strokes, task, hostEdits, hostSave, backupHandle, snap>>

\* the redo closure of the event last undone; it pushes the edit it captured
Redo ==
    /\ hostIdx < Len(hostEdits)
    /\ Mutate(ArrayPush(edits, hostEdits[hostIdx + 1]))
    /\ hostIdx' = hostIdx + 1
    /\ run' = NoRun
    /\ last' = IF last.op = "undo"
               THEN [Step("redoAfterUndo") EXCEPT !.pre = last.pre,
                                                  !.id = hostEdits[hostIdx + 1]]
               ELSE Step("other")
    /\ UNCHANGED <<uri, documentData, disk, bridgeVars, panelVars,
                   strokes, task, hostEdits, hostSave, backupHandle, snap>>

\* ------------------------------------------------ FitsFile: save, revert
\* a check that never sees a cancellation
NeverCancelled(t) == FALSE

\* cancellation.isCancellationRequested, as saveAs reads it
IsCancellationRequested(t) == task[t].cancel

\* Array.from(a): a new array object holding the elements of a
ArrayFrom(a) == a

\* what follows `await this.saveAs(...)` once saveAs has returned normally:
\* save snapshots the log (and the editor moves its save point); saveAs and
\* backup have nothing left that changes the document
AfterSaveAs(t) ==
    /\ IF task[t].kind = "save"
       THEN /\ savedEdits' = ArrayFrom(edits)
            /\ shared' = FALSE
            /\ hostSave' = hostIdx
            /\ snap' = edits
       ELSE UNCHANGED <<savedEdits, shared, hostSave, snap>>
    \* backup returns { id, delete } to the editor
    /\ backupHandle' = (backupHandle \/ task[t].kind = "backup")

\* saveAs from the resolution of getFileData to its next await
SaveAsResume(t, body) ==
    IF IsCancellationRequested(t)
    THEN /\ task' = [task EXCEPT ![t] = NoTask]
         /\ AfterSaveAs(t)
    ELSE /\ task' = [task EXCEPT ![t].pc = "writing",
                                 ![t].data = ToUint8Array(body),
                                 ![t].sawCancel = task[t].cancel]
         /\ UNCHANGED <<savedEdits, shared, hostSave, snap, backupHandle>>

\* fs.writeFile(targetResource, fileData) completed, then the caller of saveAs
WriteDone(t) ==
    /\ task[t].pc = "writing"
    /\ disk' = [disk EXCEPT ![task[t].target] = task[t].data]
    /\ AfterSaveAs(t)
    /\ task' = [task EXCEPT ![t] = NoTask]
    /\ last' = Step("other")
    /\ run' = run
    /\ UNCHANGED <<uri, documentData, edits, bridgeVars, panelVars, strokes,
                   hostEdits, hostIdx>>

\* fs.writeFile rejected: saveAs, and save or backup with it, throw
WriteFail(t) ==
    /\ task[t].pc = "writing"
    /\ task' = [task EXCEPT ![t] = NoTask]
    /\ last' = Step("other")
    /\ UNCHANGED <<docVars, disk, bridgeVars, panelVars, strokes, hostVars, histVars>>

\* a rejection that is passed on to the caller
Rethrown(err) == err

\* try { await fs.delete(destination) } catch { }: what the caller of the
\* delete action sees of a rejection of fs.delete
Caught(err) == "other"

\* the delete action of the handle a backup returned: fs.delete removes the
\* file, or rejects (no file there, or the removal fails)
DeleteBackup ==
    /\ backupHandle
    /\ \E removes \in BOOLEAN :
          IF removes /\ disk[DestUri] # Absent
          THEN /\ disk' = [disk EXCEPT ![DestUri] = Absent]
               /\ last' = Step("backupDeleted")
          ELSE /\ disk' = disk
               /\ last' = Step(Caught("deleteError"))
    /\ UNCHANGED <<docVars, bridgeVars, panelVars, strokes, task, hostVars, histVars>>

\* FitsFile.readFile: no read for an untitled location
ReadFile(u) == IF Scheme(u) = "untitled" THEN << >> ELSE disk[u]

\* revert: the bytes are read, _documentData and _edits are assigned and the
\* content-changed event is fired; the editor returns to its save point.
\* (The call changes nothing before its read completes, so the read and the
\* assignments are one step.)
Revert ==
    /\ ReadFile(uri) # Absent
    /\ documentData' = ReadFile(uri)
    /\ edits' = savedEdits
    /\ shared' = TRUE
    /\ hostEdits' = IF hostSave < 0 THEN << >> ELSE SubSeq(hostEdits, 1, hostSave)
    /\ hostIdx' = IF hostSave < 0 THEN 0 ELSE hostSave
    /\ hostSave' = IF hostSave < 0 THEN 0 ELSE hostSave
    /\ run' = NoRun
    /\ last' = Step("other")
    /\ UNCHANGED <<uri, savedEdits, disk, bridgeVars, panelVars, strokes, task,
                   backupHandle, snap>>

\* the editor requests cancellation of a running save, saveAs or backup (the
\* token is read once, after getFileData: a later request is never seen)
Cancel(t) ==
    /\ task[t].pc = "awaitResponse"
    /\ ~task[t].cancel
    /\ task' = [task EXCEPT ![t].cancel = TRUE]
    /\ last' = Step("other")
    /\ UNCHANGED <<docVars, disk, bridgeVars, panelVars, strokes, hostVars, histVars>>

\* ------------------------------------------------------ Message Bridge
Message(type, id, value) == [type |-> type, requestId |-> id, value |-> value]

\* a request id that is handed out again
SameRequestId == requestId

\* this._requestId++: the value _requestId has after the request took its id
NextRequestId == requestId + 1

\* save / saveAs / backup up to the first await: saveAs calls the delegate's
\* getFileData, which throws without a panel and otherwise runs
\* postMessageWithResponse(panel, 'getFileData', {}) on the first panel
StartSaveAs(kind, target) ==
    /\ IF Len(Get(uri)) = 0
       THEN /\ last' = Step("getFileDataError")
            /\ UNCHANGED <<task, bridgeVars, panelVars>>
       ELSE /\ requestId - otherRequests <= MaxReq
            /\ requestId' = NextRequestId
            /\ callbacks' = callbacks \cup {requestId}
            /\ otherRequests' = otherRequests
            /\ inbox' = [inbox EXCEPT ![Get(uri)[1]] =
                            Append(@, Message("getFileData", requestId, << >>))]
            /\ task' = [task EXCEPT ![requestId] =
                           [NoTask EXCEPT !.kind = kind, !.pc = "awaitResponse",
                                          !.target = target,
                                          !.panel = Get(uri)[1]]]
            /\ last' = Step("other")
            /\ UNCHANGED <<webviews, pstate, loaded>>
    /\ UNCHANGED <<docVars, disk, strokes, hostVars, histVars>>

StartSave == StartSaveAs("save", uri)
StartSaveTo == StartSaveAs("saveAs", DestUri)
StartBackup == StartSaveAs("backup", DestUri)

\* a save, saveAs or backup of the other document that finds a panel: the
\* same provider issues the request; the call itself is not followed further
StartSaveOther ==
    /\ Len(Get(OtherUri)) > 0
    /\ otherRequests < MaxReq
    /\ otherRequests' = otherRequests + 1
    /\ requestId' = NextRequestId
    /\ callbacks' = callbacks \cup {requestId}
    /\ inbox' = [inbox EXCEPT ![Get(OtherUri)[1]] =
                    Append(@, Message("getFileData", requestId, << >>))]
    /\ last' = Step("other")
    /\ UNCHANGED <<docVars, disk, webviews, pstate, loaded, strokes, task, hostVars,
                   histVars>>

\* the oldest resolver of the table, whatever id is asked for
CallbackOldest(id) ==
    IF callbacks = {} THEN 0 ELSE CHOOSE n \in callbacks : \A m \in callbacks : n <= m

\* this._callbacks.get(message.requestId): 0 stands for undefined
CallbackFor(id) == IF id \in callbacks THEN id ELSE 0

\* onMessage, case 'response': callback?.(message.body); resolving a promise
\* that is already resolved does nothing
OnResponse(p, id, body) ==
    /\ Alive(p)
    /\ LET cb == CallbackFor(id) IN
       IF cb = 0 \/ task[cb].pc # "awaitResponse"
       THEN /\ last' = [Step("response") EXCEPT !.id = id]
            /\ UNCHANGED <<savedEdits, shared, hostSave, snap, backupHandle, task>>
       ELSE /\ SaveAsResume(cb, body)
            /\ last' = [Step(IF task'[cb].pc = "idle" THEN "saveAsCancelled"
                                                     ELSE "response")
                           EXCEPT !.id = id]
    /\ UNCHANGED <<uri, documentData, edits, disk, bridgeVars, panelVars,
                   strokes, hostEdits, hostIdx, run>>

\* ------------------------------------------------------ Editor Provider
\* Buffer.from(bytes).toString(): UTF-8 decoding to code points.  A byte below
\* 128 is itself, a lead byte C2..DF followed by a continuation byte 80..BF is
\* one two-byte code point, and a byte that starts no valid sequence becomes
\* U+FFFD.  (Lead bytes E0..F4 do not occur in the contents explored here.)
RECURSIVE BufferToString(_)
BufferToString(b) ==
    IF b = << >> THEN << >>
    ELSE IF b[1] < 128 THEN <<b[1]>> \o BufferToString(Tail(b))
    ELSE IF /\ b[1] \in 194..223
            /\ Len(b) >= 2
            /\ b[2] \in 128..191
         THEN <<(b[1] - 192) * 64 + (b[2] - 128)>> \o BufferToString(Tail(Tail(b)))
    ELSE <<65533>> \o BufferToString(Tail(b))

\* documentData of the document at a resource (the other document's bytes
\* are those of its file)
DataOf(res) == IF res = uri THEN documentData ELSE disk[OtherUri]

\* an init body that ignores what kind of document it is for
InitBodyUntitled(res) == [untitled |-> TRUE, editable |-> TRUE]

\* the body of the init message resolveCustomEditor's handler posts
InitBody(res) ==
    IF Scheme(res) = "untitled"
    THEN [untitled |-> TRUE, editable |-> TRUE]
    ELSE [value |-> BufferToString(DataOf(res))]

\* resolveCustomEditor: the panel is added to the collection, gets its html
\* and its two message handlers
ResolveCustomEditor(p, res) ==
    /\ pstate[p] = "none"
    /\ webviews' = Append(webviews, [resource |-> res, webviewPanel |-> p])
    /\ pstate' = [pstate EXCEPT ![p] = "loading"]
    /\ last' = Step("other")
    /\ UNCHANGED <<docVars, disk, bridgeVars, inbox, loaded, strokes, task, hostVars,
                   histVars>>

\* the panel script's $(document).ready posts 'ready'; onMessage has no case
\* for it, the second handler posts init
OnReady(p) ==
    /\ pstate[p] = "loading"
    /\ pstate' = [pstate EXCEPT ![p] = "ready"]
    /\ inbox' = [inbox EXCEPT ![p] =
                    Append(@, Message("init", 0, InitBody(PanelDocument(p))))]
    /\ last' = Step("other")
    /\ UNCHANGED <<docVars, disk, bridgeVars, webviews, loaded, strokes, task, hostVars,
                   histVars>>

\* the panel script's window message listener: 'init' calls JS9.Load(body.value)
\* (undefined when the body has no value); every other type falls through
PanelReceive(p) ==
    /\ Alive(p)
    /\ inbox[p] # << >>
    /\ inbox' = [inbox EXCEPT ![p] = Tail(@)]
    /\ loaded' = IF Head(inbox[p]).type = "init"
                 THEN [loaded EXCEPT ![p] =
                         IF "value" \in DOMAIN Head(inbox[p]).value
                         THEN Head(inbox[p]).value.value ELSE Undefined]
                 ELSE loaded
    /\ last' = Step("other")
    /\ UNCHANGED <<docVars, disk, bridgeVars, webviews, pstate, strokes, task, hostVars,
                   histVars>>

\* the panel is closed: every disposal hook WebviewCollection.add installed
\* for it deletes its entry
DisposePanel(p) ==
    /\ Alive(p)
    /\ pstate' = [pstate EXCEPT ![p] = "disposed"]
    /\ webviews' = Without(webviews, p)
    /\ inbox' = [inbox EXCEPT ![p] = << >>]
    /\ loaded' = [loaded EXCEPT ![p] = NotLoaded]
    /\ last' = Step("other")
    /\ UNCHANGED <<docVars, disk, bridgeVars, strokes, task, hostVars, histVars>>

\* ---------------------------------------------------------- specifications
\* the panel the editor creates for a document: panel 1 shows the tracked
\* document, every other panel the other one
ResourceOf(p) == IF p = 1 THEN uri ELSE OtherUri

\* the calls of the editor that need no panel message
EditorCall ==
    \/ \E p \in Panels : ResolveCustomEditor(p, ResourceOf(p))
    \/ \E p \in Panels : DisposePanel(p)
    \/ StartSave
    \/ StartSaveTo
    \/ StartBackup
    \/ Revert
    \/ \E n \in Ids : Cancel(n)

\* The provider and the document against any panel: a panel may send strokes
\* and responses (with any id and any body) at any time, and the editor may
\* use the undo and redo actions it was handed.
Next ==
    \/ EditorCall
    \/ \E p \in Panels : OnStroke(p)
    \/ \E p \in Panels, id \in MessageIds, body \in Payloads : OnResponse(p, id, body)
    \/ \E n \in Ids : WriteDone(n)
    \/ \E n \in Ids : WriteFail(n)
    \/ Undo
    \/ Redo
    \/ DeleteBackup

Spec == Init /\ [][Next]_vars

\* The provider and the document with the panel script of this repository:
\* the script posts ready once its page has loaded and handles what is posted
\* to it; it sends nothing else.
NextScript ==
    \/ EditorCall
    \/ \E p \in Panels : OnReady(p)
    \/ \E p \in Panels : PanelReceive(p)

SpecScript == InitScript /\ [][NextScript]_vars

\* The message bridge of the provider with both documents saving: requests
\* of either document, responses with any id from any panel, no edits.
NextBridge ==
    \/ EditorCall
    \/ StartSaveOther
    \/ \E p \in Panels, id \in MessageIds, body \in Payloads : OnResponse(p, id, body)
    \/ \E n \in Ids : WriteDone(n)
    \/ \E n \in Ids : WriteFail(n)

SpecBridge == InitScript /\ [][NextBridge]_vars

\* The WebviewCollection on its own: any panel added under any resource,
\* any number of times, and panels disposed.
NextCollection ==
    \/ \E p \in Panels, res \in {uri, OtherUri} : Add(res, p)
    \/ \E p \in Panels : DisposePanel(p)

SpecCollection == Init /\ [][NextCollection]_vars

\* a panel's event loop runs the listener on every message posted to it, and
\* a loaded page fires its ready handler
FairScript ==
    /\ SpecScript
    /\ \A p \in Panels : WF_vars(PanelReceive(p)) /\ WF_vars(OnReady(p))

\* ------------------------------------------------------------ properties
\* C1: whenever a revert completes, the edit log equals the edit list that
\* the most recent completed save captured (empty if there was none), and
\* documentData equals the bytes that revert read from the document's location
C1_RevertRestoresSavedLog ==
    [][Revert => (edits' = snap /\ documentData' = ReadFile(uri))]_vars

\* C2: savedEdits is empty at first and changes only when a save whose bytes
\* were written takes its snapshot, to the contents the edit log has then; so
\* it always equals the snapshot of the most recent successful save, and a
\* cancelled or failed save leaves it as it was
C2_SavedEditsOnlyBySuccessfulSave ==
    [][savedEdits' # savedEdits =>
         \E n \in Ids : /\ WriteDone(n)
                        /\ task[n].kind = "save"
                        /\ savedEdits' = edits]_vars

\* C3: after n makeEdit calls on a log L and k of their undo actions, invoked
\* newest first, the log is L followed by the n - k edits not yet undone; after
\* all n undo actions it is exactly L
C3_UndoAllRestoresLog == run.active => edits = run.base \o run.made

\* C3 witness: two makeEdit calls were made and both were undone, newest first
C3_Witness ==
    /\ run.active
    /\ run.made = << >>
    /\ run.undone = 2
    /\ last.op = "undo"

\* C4: the redo action of a makeEdit(e), invoked right after its undo action,
\* leaves the log identical to what it was before that undo
C4_RedoAfterUndoRestoresLog ==
    [][(last.op = "undo" /\ Redo) => edits' = last.pre]_vars

\* request n was sent and its promise has been resolved
Answered(n) == n < requestId /\ task[n].pc # "awaitResponse"

\* C5: a response carrying id N and payload P resolves the caller awaiting
\* request N with exactly P; a further response carrying N finds no resolver
\* to invoke and changes nothing
C5_ResponseResolvesExactlyOnce ==
    [][\A p \in Panels, id \in Ids, body \in Payloads :
         OnResponse(p, id, body) =>
            IF task[id].pc = "awaitResponse"
            THEN /\ task'[id].pc # "awaitResponse"
                 /\ task'[id].pc = "writing" => task'[id].data = ToUint8Array(body)
            ELSE Answered(id) =>
                    /\ CallbackFor(id) = 0
                    /\ UNCHANGED <<docVars, disk, bridgeVars, task>>]_vars

\* C6: the pending-request table holds an entry for id N exactly while
\* request N awaits its response
C6_TableHoldsOnlyUnanswered ==
    \A n \in Ids : n \in callbacks <=> task[n].pc = "awaitResponse"

\* C7: a saveAs whose cancellation was requested before the bytes arrived ends
\* at the check without writing, and bytes are put in storage only by the
\* write of a call whose check saw no cancellation
C7_CancelledSaveAsWritesNothing ==
    [][/\ \A n \in Ids :
            (task[n].pc = "awaitResponse" /\ task[n].cancel
                /\ task'[n].pc # "awaitResponse")
            => (task'[n].pc = "idle" /\ disk' = disk)
       /\ (\E l \in Locations : disk'[l] # disk[l] /\ disk'[l] # Absent) =>
            \E n \in Ids : /\ task[n].pc = "writing"
                           /\ ~task[n].sawCancel
                           /\ disk' = [disk EXCEPT ![task[n].target] = task[n].data]
      ]_vars

\* C7 witness: a call cancelled while it awaited the bytes has returned at the
\* check, and its target holds no file
C7_Witness ==
    /\ last.op = "saveAsCancelled"
    /\ disk[DestUri] = Absent
    /\ \A l \in DocUris : disk[l] \in {Absent, InitialBytes}

\* no entry of the collection is for the document's location
NoPanelRegistered == \A i \in DOMAIN webviews : webviews[i].resource # uri

\* C8: save, saveAs or backup called while no panel is registered for the
\* document's location fails in getFileData: nothing is posted, no pending
\* entry is made, nothing is written and savedEdits stays as it is
C8_NoPanelFailsWithoutEffect ==
    [][(NoPanelRegistered /\ (StartSave \/ StartSaveTo \/ StartBackup)) =>
          /\ last'.op = "getFileDataError"
          /\ UNCHANGED <<requestId, callbacks, inbox, task, disk, savedEdits>>
      ]_vars

\* C8 witness: a call has failed in getFileData while only a panel of the
\* other document was registered
C8_Witness ==
    /\ last.op = "getFileDataError"
    /\ webviews # << >>

\* C9: every getFileData request sent to a panel that stays open is
\* eventually answered, so the save that sent it completes
C9_RequestEventuallyAnswered ==
    \A n \in Ids :
        (task[n].pc = "awaitResponse") ~>
            (task[n].pc # "awaitResponse" \/ pstate[1] = "disposed")

\* C10: a request stays pending until a response carrying its id is handled:
\* no other step (cancellation and panel disposal included) completes the
\* call, lets it write or removes its pending entry
C10_PendingUntilItsResponse ==
    [][\A n \in Ids :
         task[n].pc = "awaitResponse" =>
            /\ n \in callbacks
            /\ \/ /\ task'[n].pc = "awaitResponse"
                  /\ n \in callbacks'
                  /\ task'[n].target = task[n].target
               \/ /\ last'.op \in {"response", "saveAsCancelled"}
                  /\ last'.id = n
                  /\ \E p \in Panels, body \in Payloads : OnResponse(p, n, body)]_vars

\* C10 witness: a request is still pending although its call was cancelled
\* and the panel it was sent to has been disposed
C10_Witness ==
    \E n \in Ids : /\ task[n].pc = "awaitResponse"
                   /\ task[n].cancel
                   /\ n \in callbacks
                   /\ pstate[1] = "disposed"

\* the getFileData messages posted to panel p and not yet handled
Requests(p) == SelectSeq(inbox[p], LAMBDA m : m.type = "getFileData")

\* C11: every request takes the current value of the counter as its id and
\* leaves the counter one higher; the counter never decreases and is above
\* every id issued so far, so ids are strictly increasing in sending order and
\* none is issued twice, whichever document and panel the request is for
C11_RequestIdsStrictlyIncrease ==
    [][/\ requestId' >= requestId
       /\ \A n \in callbacks : n < requestId
       /\ \A p \in Panels :
             Len(Requests(p)') > Len(Requests(p)) =>
                /\ Requests(p)' = Append(Requests(p), Message("getFileData", requestId, << >>))
                /\ requestId' = requestId + 1
                /\ requestId \notin callbacks
                /\ \A q \in Panels \ {p} : Requests(q)' = Requests(q)]_vars

\* C11 witness: both documents have sent a request, to different panels, the
\* one sent first has been answered, and the ids are 1 and 2
C11_Witness ==
    /\ requestId = 3
    /\ otherRequests = 1
    /\ \E n \in {1, 2} : task[n].pc = "writing"
    /\ \E p \in Panels : Requests(p) # << >>

\* the init messages posted to panel p and not yet handled
Inits(p) == SelectSeq(inbox[p], LAMBDA m : m.type = "init")

\* C12: an init message is posted to a panel only by the handling of a ready
\* message of that panel, one per ready; a panel that has not sent ready has
\* been posted none; the body is {untitled: true, editable: true} for an
\* untitled location and {value: the documentData as a string} otherwise
C12_InitOnlyAnswersReady ==
    [][\A p \in Panels :
         /\ pstate'[p] \in {"none", "loading"} =>
               (Inits(p)' = << >> /\ loaded'[p] = NotLoaded)
         /\ Len(Inits(p)') > Len(Inits(p)) =>
               /\ OnReady(p)
               /\ Inits(p)' = Append(Inits(p),
                     Message("init", 0,
                        IF Scheme(ResourceOf(p)) = "untitled"
                        THEN [untitled |-> TRUE, editable |-> TRUE]
                        ELSE [value |-> BufferToString(DataOf(ResourceOf(p)))]))
               /\ \A q \in Panels \ {p} : Inits(q)' = Inits(q)]_vars

\* C12 witness: the panel of the untitled document has sent ready and holds
\* the untitled init, and the panel of the file document has loaded a value
C12_Witness ==
    /\ Scheme(uri) = "untitled"
    /\ pstate[1] = "ready"
    /\ Inits(1) = <<Message("init", 0, [untitled |-> TRUE, editable |-> TRUE])>>
    /\ loaded[2] = <<66>>

\* C13: the handling of a stroke message appends exactly one entry, the edit
\* of that message, at the end of the log and leaves the entries before it as
\* they were, whatever save, saveAs or backup is awaiting its response; so a
\* sequence of strokes leaves the previous log followed by their edits in the
\* order they arrived
C13_StrokesAppendInArrivalOrder ==
    [][\A p \in Panels :
         OnStroke(p) =>
            /\ Len(edits') = Len(edits) + 1
            /\ SubSeq(edits', 1, Len(edits)) = edits
            /\ edits'[Len(edits')] = strokes'
            /\ task' = task]_vars

\* C13 witness: two strokes arrived one after the other while a save was
\* awaiting its response, and the log holds their edits in arrival order
C13_Witness ==
    /\ run.active
    /\ run.made = <<1, 2>>
    /\ edits = run.base \o <<1, 2>>
    /\ \E n \in Ids : task[n].pc = "awaitResponse" /\ task[n].kind = "save"

\* C14: add puts the panel at the end of what get yields for its resource
\* and leaves what get yields for any other resource; disposing a panel takes
\* every occurrence of it out of what get yields and keeps the rest in order.
\* So get yields the panels added with the resource and not disposed, in the
\* order added, once per add, from the registry as it is at the call
C14_GetYieldsLiveEntriesInOrder ==
    [][\A u \in {uri, OtherUri} :
         /\ \A p \in Panels, res \in {uri, OtherUri} :
               Add(res, p) =>
                  Get(u)' = IF res = u THEN Append(Get(u), p) ELSE Get(u)
         /\ \A p \in Panels :
               DisposePanel(p) => Get(u)' = SelectSeq(Get(u), LAMBDA q : q # p)]_vars

\* C14 witness: one pair was added twice and get yields its panel twice,
\* after another panel was added and disposed
C14_Witness ==
    /\ Get(uri) = <<1, 1>>
    /\ pstate[2] = "disposed"

\* C15: the registry holds no entry of a disposed panel, and the disposal of
\* a panel removes its entries, however many, and no entry of another panel
C15_DisposedPanelHasNoEntry ==
    [][\A p \in Panels :
         /\ pstate'[p] = "disposed" =>
               \A i \in DOMAIN webviews' : webviews'[i].webviewPanel # p
         /\ DisposePanel(p) =>
               webviews' = SelectSeq(webviews, LAMBDA e : e.webviewPanel # p)]_vars

\* C15 witness: panel 1 has been disposed and the two entries of panel 2,
\* one per resource, are still registered
C15_Witness ==
    /\ pstate[1] = "disposed"
    /\ Get(uri) = <<2>>
    /\ Get(OtherUri) = <<2>>

\* C17: what a panel hands to the visualization library for an init with a
\* value is, byte for byte, the documentData the value was made from
C17_InitValueRoundTrips ==
    [][\A p \in Panels :
         (/\ PanelReceive(p)
          /\ Head(inbox[p]).type = "init"
          /\ Scheme(ResourceOf(p)) # "untitled")
         => loaded'[p] = DataOf(ResourceOf(p))]_vars

\* C18: makeEdit and the undo and redo actions change the edit log only:
\* documentData and savedEdits are after them what they were before
C18_EditsLeaveSavedStateAlone ==
    [][((\E p \in Panels : OnStroke(p)) \/ Undo \/ Redo) =>
          (documentData' = documentData /\ savedEdits' = savedEdits)]_vars

\* C19: a call stops awaiting its request only by a response that the panel
\* the request was sent to has sent
C19_ResolvedOnlyByItsPanel ==
    [][\A n \in Ids :
         (task[n].pc = "awaitResponse" /\ task'[n].pc # "awaitResponse") =>
            \E body \in Payloads : OnResponse(task[n].panel, n, body)]_vars

\* C16: a backup sends to its destination the bytes the panel answered with,
\* by the write of saveAs, and then hands the editor its handle; no step of a
\* backup changes edits or savedEdits; the delete action of the handle either
\* removes the destination or leaves storage as it is (always so when the
\* destination is absent), touches nothing else and raises no error
C16_BackupWritesAndDeleteNeverThrows ==
    [][/\ \A n \in Ids :
            task[n].kind = "backup" =>
               /\ task[n].target = DestUri
               /\ task'[n] # task[n] => UNCHANGED <<edits, savedEdits>>
               /\ WriteDone(n) =>
                     (disk' = [disk EXCEPT ![DestUri] = task[n].data] /\ backupHandle')
               /\ (task[n].pc = "awaitResponse" /\ task'[n].pc = "writing") =>
                     \E p \in Panels, body \in Payloads :
                        /\ task'[n].data = ToUint8Array(body)
                        /\ OnResponse(p, n, body)
       /\ StartBackup => UNCHANGED <<edits, savedEdits, disk>>
       /\ DeleteBackup =>
             /\ last'.op # "deleteError"
             /\ UNCHANGED <<edits, savedEdits>>
             /\ \A l \in Locations \ {DestUri} : disk'[l] = disk[l]
             /\ disk'[DestUri] \in {Absent, disk[DestUri]}
             /\ disk[DestUri] = Absent => disk' = disk]_vars

\* C16 witness: a backup made while the log held an edit has written its
\* destination, and the delete action of its handle has removed the file
C16_Witness ==
    /\ backupHandle
    /\ last.op = "backupDeleted"
    /\ disk[DestUri] = Absent
    /\ edits # << >>

====
